---- MODULE Spec2Model ----
(***************************************************************************)
(* Model of hypo_csv.py: chi-squared gating, clustering, hypothesis        *)
(* enumeration, probability scoring, association weights, per-report       *)
(* arg-max and Kalman update of the track table.                           *)
(*                                                                         *)
(* Numbers.  All positions are integer 3-vectors and cov_inv is the        *)
(* identity, so the squared Mahalanobis distance d^2 is an integer; the    *)
(* model carries d^2 and compares squares (sqrt is monotone).  A raw       *)
(* hypothesis score is exp(-0.5*d1^2)*...*exp(-0.5*dk^2) = q^S with        *)
(* q = exp(-1/2) and S the sum of the d^2; it is carried as the list of    *)
(* its factors.  A normalized probability is a sum of such powers divided  *)
(* by the cluster total Z; it is carried as the bag of the exponents of    *)
(* its numerator.  IEEE-754 specifics kept: underflow of q^S to 0.0,       *)
(* 0.0/0.0 = NaN, NaN comparisons are false, float -> int64 truncation on  *)
(* assignment into the integer track table.                                *)
(***************************************************************************)
EXTENDS Integers, Sequences, FiniteSets, Bags, TLC

\* ---------------------------------------------------------------- bounds
MaxTracks == 2
MaxReports == 2

\* ------------------------------------------------------ program constants
state_dim == 3

\* chi2.ppf(0.95, df=3) = 7.814727903..., squared and scaled by 10^4
\* (7.8147279^2 = 61.06997...), so  d < chi2_threshold  <=>  d^2*10^4 < this
Chi2Ppf95SqE4 == 610699

\* exp(-0.5*S) is a nonzero double iff 0.5*S <= 745 (smallest subnormal)
ExpUnderflowD2 == 1490

\* ------------------------------------------------------------ input sets
TrackPoints == {<<0, 0, 0>>, <<10, 0, 0>>, <<80, 80, 80>>}
ReportPoints == {<<5, 0, 0>>, <<10, 0, 0>>, <<80, 80, 80>>}

ScenarioTracks == <<(<<6, 6, 10>>), (<<15, 15, 10>>), (<<7, 7, 10>>)>>
ScenarioReports == <<(<<7, 7, 10>>), (<<16, 16, 10>>), (<<8, 8, 10>>), (<<80, 80, 80>>)>>

VARIABLES
    tracks,              \* the int64 track table (0-based ids, stored 1-based)
    tracks0,             \* the track table as loaded, before the cycle
    P,                   \* per track covariance p*I, p = <<num, den>>
    reports,             \* the report table
    R,                   \* measurement noise r*I
    chi2_threshold,      \* [inf, sqE4]
    association_list,    \* list of <<track id, report id>>
    gate_log,            \* the distances printed by gating: <<i, j, d^2>>
    clusters,            \* list of [tracks, reports] (lists of ids)
    stack,
    cluster_tracks,      \* set while clustering, array slice while processing
    cluster_reports,
    ci,                  \* position of the cluster loop (1-based)
    hypotheses,
    probabilities,
    association_weights,
    joint_probabilities,
    max_associations,
    max_probs,
    ri,                  \* report_idx of the update loop (0-based)
    csv_data,
    written,             \* <<track id, report id>> of the updates stored so far
    pc

vars == <<tracks, tracks0, P, reports, R, chi2_threshold, association_list,
          gate_log, clusters, stack, cluster_tracks, cluster_reports, ci,
          hypotheses, probabilities, association_weights, joint_probabilities,
          max_associations, max_probs, ri, csv_data, written, pc>>

\* ----------------------------------------------------------------- helpers
RECURSIVE Pow(_, _)
Pow(b, e) == IF e = 0 THEN 1 ELSE b * Pow(b, e - 1)

Range(s) == {s[k] : k \in 1..Len(s)}

RECURSIVE SortedSeq(_)
SortedSeq(S) ==
    IF S = {} THEN <<>>
    ELSE LET m == CHOOSE x \in S : \A y \in S : x <= y
         IN <<m>> \o SortedSeq(S \ {m})

RECURSIVE Flatten(_)
Flatten(ss) == IF ss = <<>> THEN <<>> ELSE Head(ss) \o Flatten(Tail(ss))

SeqsUpTo(S, n) == UNION {[1..k -> S] : k \in 1..n}

\* ----------------------------------------------------------------- gating
\* faulty variant: city-block distance instead of the quadratic form
mahalanobis_cityblock(x, y) ==
    LET abs(v) == IF v < 0 THEN -v ELSE v
    IN abs(x[1] - y[1]) + abs(x[2] - y[2]) + abs(x[3] - y[3])

mahalanobis_distance_sq(x, y) ==
    LET delta == [k \in 1..state_dim |-> x[k] - y[k]]
    IN delta[1] * delta[1] + delta[2] * delta[2] + delta[3] * delta[3]

\* faulty variant: the comparison reversed
WithinGateReversed(d2, thr) == thr.inf \/ d2 * 10000 > thr.sqE4

WithinGate(d2, thr) == thr.inf \/ d2 * 10000 < thr.sqE4

GatePairs(trk, rep) ==
    Flatten([i \in 1..Len(trk) |->
        Flatten([j \in 1..Len(rep) |->
            <<(<<i - 1, j - 1, mahalanobis_distance_sq(trk[i], rep[j])>>)>>])])

Gating ==
    /\ pc = "gate"
    /\ LET all == GatePairs(tracks, reports)
           adm == SelectSeq(all, LAMBDA e : WithinGate(e[3], chi2_threshold))
       IN /\ association_list' = [k \in 1..Len(adm) |-> <<adm[k][1], adm[k][2]>>]
          /\ gate_log' = adm
    /\ pc' = "cluster"
    /\ UNCHANGED <<tracks, tracks0, P, reports, R, chi2_threshold, clusters,
                   stack, cluster_tracks, cluster_reports, ci, hypotheses,
                   probabilities, association_weights, joint_probabilities,
                   max_associations, max_probs, ri, csv_data, written>>

\* -------------------------------------------------------------- clustering
ClusterStart ==
    /\ pc = "cluster"
    /\ association_list # <<>>
    /\ cluster_tracks' = {}
    /\ cluster_reports' = {}
    /\ stack' = <<Head(association_list)>>
    /\ association_list' = Tail(association_list)
    /\ pc' = "absorb"
    /\ UNCHANGED <<tracks, tracks0, P, reports, R, chi2_threshold, gate_log,
                   clusters, ci, hypotheses, probabilities, association_weights,
                   joint_probabilities, max_associations, max_probs, ri,
                   csv_data, written>>

\* faulty variant: absorbs on a shared track only
SharesTrackOnly(a, track_idx, report_idx) == a[1] = track_idx

Shares(a, track_idx, report_idx) == a[1] = track_idx \/ a[2] = report_idx

RECURSIVE PushNew(_, _)
PushNew(stk, new) ==
    IF new = <<>> THEN stk
    ELSE PushNew(IF Head(new) \in Range(stk) THEN stk ELSE Append(stk, Head(new)),
                 Tail(new))

ClusterAbsorb ==
    /\ pc = "absorb"
    /\ stack # <<>>
    /\ LET top == stack[Len(stack)]
           rest == SubSeq(stack, 1, Len(stack) - 1)
           new_assoc == SelectSeq(association_list,
                                  LAMBDA a : Shares(a, top[1], top[2]))
       IN /\ cluster_tracks' = cluster_tracks \cup {top[1]}
          /\ cluster_reports' = cluster_reports \cup {top[2]}
          /\ stack' = PushNew(rest, new_assoc)
          /\ association_list' =
                SelectSeq(association_list, LAMBDA a : a \notin Range(new_assoc))
    /\ UNCHANGED <<tracks, tracks0, P, reports, R, chi2_threshold, gate_log,
                   clusters, ci, hypotheses, probabilities, association_weights,
                   joint_probabilities, max_associations, max_probs, ri,
                   csv_data, written, pc>>

ClusterAppend ==
    /\ pc = "absorb"
    /\ stack = <<>>
    /\ clusters' = Append(clusters, [tracks |-> SortedSeq(cluster_tracks),
                                     reports |-> SortedSeq(cluster_reports)])
    /\ pc' = "cluster"
    /\ UNCHANGED <<tracks, tracks0, P, reports, R, chi2_threshold,
                   association_list, gate_log, stack, cluster_tracks,
                   cluster_reports, ci, hypotheses, probabilities,
                   association_weights, joint_probabilities, max_associations,
                   max_probs, ri, csv_data, written>>

ClusteringDone ==
    /\ pc = "cluster"
    /\ association_list = <<>>
    /\ ci' = 1
    /\ pc' = "loop"
    /\ UNCHANGED <<tracks, tracks0, P, reports, R, chi2_threshold,
                   association_list, gate_log, clusters, stack,
                   cluster_tracks, cluster_reports, hypotheses, probabilities,
                   association_weights, joint_probabilities, max_associations,
                   max_probs, ri, csv_data, written>>

\* ---------------------------------------------------- generate_hypotheses
\* faulty variant: the digit is not shifted to make room for "no report"
RawHypothesisUnshifted(count, num_tracks, base) ==
    [t \in 1..num_tracks |-> <<t - 1, (count \div Pow(base, t - 1)) % base>>]

RawHypothesis(count, num_tracks, base) ==
    [t \in 1..num_tracks |-> <<t - 1, ((count \div Pow(base, t - 1)) % base) - 1>>]

RawHypotheses(num_tracks, num_reports) ==
    LET base == num_reports + 1
    IN [c \in 1..Pow(base, num_tracks) |-> RawHypothesis(c - 1, num_tracks, base)]

\* faulty variant: the all-"no report" hypothesis is kept
is_valid_allows_empty(hypothesis) ==
    LET vals == [k \in 1..Len(hypothesis) |-> hypothesis[k][2]]
        non_zero_hypothesis == SelectSeq(vals, LAMBDA v : v # -1)
    IN Len(non_zero_hypothesis) = Cardinality(Range(non_zero_hypothesis))

is_valid_hypothesis(hypothesis) ==
    LET vals == [k \in 1..Len(hypothesis) |-> hypothesis[k][2]]
        non_zero_hypothesis == SelectSeq(vals, LAMBDA v : v # -1)
    IN /\ Len(non_zero_hypothesis) = Cardinality(Range(non_zero_hypothesis))
       /\ Len(non_zero_hypothesis) > 0

generate_hypotheses(trk, rep) ==
    SelectSeq(RawHypotheses(Len(trk), Len(rep)), is_valid_hypothesis)

Slice(table, idxs) == [k \in 1..Len(idxs) |-> table[idxs[k] + 1]]

GenerateHypotheses ==
    /\ pc = "loop"
    /\ ci <= Len(clusters)
    /\ LET trk == Slice(tracks, clusters[ci].tracks)
           rep == Slice(reports, clusters[ci].reports)
       IN /\ cluster_tracks' = trk
          /\ cluster_reports' = rep
          /\ hypotheses' = generate_hypotheses(trk, rep)
    /\ pc' = "score"
    /\ UNCHANGED <<tracks, tracks0, P, reports, R, chi2_threshold,
                   association_list, gate_log, clusters, stack, ci,
                   probabilities, association_weights, joint_probabilities,
                   max_associations, max_probs, ri, csv_data, written>>

\* ------------------------------------------------ calculate_probabilities
RECURSIVE SumSeq(_)
SumSeq(s) == IF s = <<>> THEN 0 ELSE Head(s) + SumSeq(Tail(s))

\* the d^2 of the factors exp(-0.5*d^2) multiplied into prob, in order
ScoreFactors(hypothesis, trk, rep) ==
    LET assigned == SelectSeq(hypothesis, LAMBDA a : a[2] # -1)
    IN [k \in 1..Len(assigned) |->
            mahalanobis_distance_sq(trk[assigned[k][1] + 1], rep[assigned[k][2] + 1])]

\* the product underflows to 0.0
ScoreIsZero(factors) == SumSeq(factors) > ExpUnderflowD2

Normalize(raw) ==
    LET total_is_zero == \A k \in 1..Len(raw) : ScoreIsZero(raw[k])
    IN [k \in 1..Len(raw) |->
            [nan |-> total_is_zero,
             num |-> IF ScoreIsZero(raw[k]) THEN EmptyBag
                     ELSE SetToBag({SumSeq(raw[k])}),
             f   |-> SelectSeq(raw[k], LAMBDA d : d # 0)]]

calculate_probabilities(hyps, trk, rep) ==
    Normalize([k \in 1..Len(hyps) |-> ScoreFactors(hyps[k], trk, rep)])

CalculateProbabilities ==
    /\ pc = "score"
    /\ probabilities' = calculate_probabilities(hypotheses, cluster_tracks, cluster_reports)
    /\ pc' = "weights"
    /\ UNCHANGED <<tracks, tracks0, P, reports, R, chi2_threshold,
                   association_list, gate_log, clusters, stack, cluster_tracks,
                   cluster_reports, ci, hypotheses, association_weights,
                   joint_probabilities, max_associations, max_probs, ri,
                   csv_data, written>>

\* ------------------------------------------------ get_association_weights
Val(p) == [nan |-> p.nan, num |-> p.num]

AddVal(a, b) == [nan |-> a.nan \/ b.nan, num |-> a.num (+) b.num]

\* faulty variant: a repeated report overwrites instead of adding
DictOverwrite(report_probs, report_idx, prob) ==
    IF \E k \in 1..Len(report_probs) : report_probs[k][1] = report_idx
    THEN LET k == CHOOSE j \in 1..Len(report_probs) : report_probs[j][1] = report_idx
         IN SubSeq(report_probs, 1, k - 1)
            \o <<(<<report_idx, prob>>)>>
            \o SubSeq(report_probs, k + 1, Len(report_probs))
    ELSE Append(report_probs, <<report_idx, prob>>)

\* report_probs: a dict kept as the list of its items in insertion order
DictAdd(report_probs, report_idx, prob) ==
    IF \E k \in 1..Len(report_probs) : report_probs[k][1] = report_idx
    THEN LET k == CHOOSE j \in 1..Len(report_probs) : report_probs[j][1] = report_idx
         IN SubSeq(report_probs, 1, k - 1)
            \o <<(<<report_idx, AddVal(report_probs[k][2], prob)>>)>>
            \o SubSeq(report_probs, k + 1, Len(report_probs))
    ELSE Append(report_probs, <<report_idx, prob>>)

RECURSIVE Accumulate(_, _)
Accumulate(track_weights, report_probs) ==
    IF track_weights = <<>> THEN report_probs
    ELSE Accumulate(Tail(track_weights),
                    DictAdd(report_probs, Head(track_weights)[1], Head(track_weights)[2]))

\* list.sort(key=report index): ascending keys, equal keys keep their order
SortByReport(track_weights) ==
    LET keys == SortedSeq({track_weights[k][1] : k \in 1..Len(track_weights)})
    IN Flatten([j \in 1..Len(keys) |->
                    SelectSeq(track_weights, LAMBDA e : e[1] = keys[j])])

\* the (report_idx, prob) appended for one track over zip(hypotheses, probabilities)
Appended(hyps, probs, track_idx) ==
    LET idx == SelectSeq([k \in 1..Len(hyps) |-> k],
                         LAMBDA k : hyps[k][track_idx + 1][2] # -1)
    IN [k \in 1..Len(idx) |-> <<hyps[idx[k]][track_idx + 1][2], Val(probs[idx[k]])>>]

get_association_weights(hyps, probs) ==
    LET num_tracks == Len(hyps[1])
    IN [t \in 1..num_tracks |->
            Accumulate(SortByReport(Appended(hyps, probs, t - 1)), <<>>)]

GetAssociationWeights ==
    /\ pc = "weights"
    /\ association_weights' = get_association_weights(hypotheses, probabilities)
    /\ pc' = "joint"
    /\ UNCHANGED <<tracks, tracks0, P, reports, R, chi2_threshold,
                   association_list, gate_log, clusters, stack, cluster_tracks,
                   cluster_reports, ci, hypotheses, probabilities,
                   joint_probabilities, max_associations, max_probs, ri,
                   csv_data, written>>

\* ------------------------------------------ calculate_joint_probabilities
\* next(w for r, w in association_weights[track_idx] if r == report_idx)
WeightOf(track_weights, report_idx) ==
    LET k == CHOOSE k \in 1..Len(track_weights) :
                /\ track_weights[k][1] = report_idx
                /\ \A l \in 1..(k - 1) : track_weights[l][1] # report_idx
    IN track_weights[k][2]

\* joint_prob = prob * weight * ... kept as the list of its factors
JointOf(hypothesis, prob, weights) ==
    LET assigned == SelectSeq(hypothesis, LAMBDA a : a[2] # -1)
        fs == <<Val(prob)>> \o
              [k \in 1..Len(assigned) |->
                    WeightOf(weights[assigned[k][1] + 1], assigned[k][2])]
    IN [nan |-> \E k \in 1..Len(fs) : fs[k].nan, factors |-> fs]

calculate_joint_probabilities(hyps, probs, weights) ==
    [k \in 1..Len(hyps) |-> JointOf(hyps[k], probs[k], weights)]

CalculateJointProbabilities ==
    /\ pc = "joint"
    /\ joint_probabilities' =
            calculate_joint_probabilities(hypotheses, probabilities, association_weights)
    /\ pc' = "max"
    /\ UNCHANGED <<tracks, tracks0, P, reports, R, chi2_threshold,
                   association_list, gate_log, clusters, stack, cluster_tracks,
                   cluster_reports, ci, hypotheses, probabilities,
                   association_weights, max_associations, max_probs, ri,
                   csv_data, written>>

\* -------------------------------------------------- find_max_associations
FloatZero == [nan |-> FALSE, num |-> EmptyBag, f |-> <<>>]

\* two products of the same factors are the same double when the factor
\* lists agree, or have at most two factors (a*b = b*a); longer products
\* of the same exponent may differ in the last bit
SameDouble(f, g) ==
    \/ f = g
    \/ Len(f) = 2 /\ Len(g) = 2 /\ f = <<g[2], g[1]>>

\* the values  prob > max_probs[report_idx]  can take
GreaterOutcomes(prob, cur) ==
    IF prob.nan \/ prob.num = EmptyBag THEN {FALSE}
    ELSE IF cur.num = EmptyBag THEN {TRUE}
    ELSE IF SumSeq(prob.f) < SumSeq(cur.f) THEN {TRUE}
    ELSE IF SumSeq(prob.f) > SumSeq(cur.f) THEN {FALSE}
    ELSE IF SameDouble(prob.f, cur.f) THEN {FALSE}
    ELSE BOOLEAN

\* the (track_idx, report_idx, prob) visited by the two nested loops, in order
Visits(hyps, probs) ==
    Flatten([k \in 1..Len(hyps) |->
                [l \in 1..Len(hyps[k]) |-> <<hyps[k][l][1], hyps[k][l][2], probs[k]>>]])

RECURSIVE FindMaxFrom(_, _)
FindMaxFrom(visits, st) ==
    IF visits = <<>> THEN {st}
    ELSE LET v == Head(visits)
         IN IF v[2] = -1 THEN FindMaxFrom(Tail(visits), st)
            ELSE UNION {
                    FindMaxFrom(Tail(visits),
                        IF b THEN [assoc |-> [st.assoc EXCEPT ![v[2] + 1] = v[1]],
                                   probs |-> [st.probs EXCEPT ![v[2] + 1] = v[3]]]
                        ELSE st)
                    : b \in GreaterOutcomes(v[3], st.probs[v[2] + 1])}

find_max_associations(hyps, probs) ==
    FindMaxFrom(Visits(hyps, probs),
                [assoc |-> [k \in 1..Len(reports) |-> -1],
                 probs |-> [k \in 1..Len(reports) |-> FloatZero]])

FindMaxAssociations ==
    /\ pc = "max"
    /\ \E res \in find_max_associations(hypotheses, probabilities) :
          /\ max_associations' = res.assoc
          /\ max_probs' = res.probs
    /\ pc' = "emit"
    /\ UNCHANGED <<tracks, tracks0, P, reports, R, chi2_threshold,
                   association_list, gate_log, clusters, stack, cluster_tracks,
                   cluster_reports, ci, hypotheses, probabilities,
                   association_weights, joint_probabilities, ri, csv_data,
                   written>>

\* ------------------------------------------------------- hypothesis records
Record(track_idxs, report_idxs, hypothesis, prob, joint_prob) ==
    [tracks  |-> [k \in 1..Len(hypothesis) |-> track_idxs[hypothesis[k][1] + 1] + 1],
     reports |-> [k \in 1..Len(hypothesis) |->
                    IF hypothesis[k][2] # -1
                    THEN report_idxs[hypothesis[k][2] + 1] + 1
                    ELSE 0],
     prob    |-> Val(prob),
     joint   |-> joint_prob]

EmitRecords ==
    /\ pc = "emit"
    /\ csv_data' = csv_data \o
            [k \in 1..Len(hypotheses) |->
                Record(clusters[ci].tracks, clusters[ci].reports, hypotheses[k],
                       probabilities[k], joint_probabilities[k])]
    /\ ri' = 0
    /\ pc' = "update"
    /\ UNCHANGED <<tracks, tracks0, P, reports, R, chi2_threshold,
                   association_list, gate_log, clusters, stack, cluster_tracks,
                   cluster_reports, ci, hypotheses, probabilities,
                   association_weights, joint_probabilities, max_associations,
                   max_probs, written>>

\* ------------------------------------------------------------ kalman_update
\* P = (n/d)*I and R = r*I:  P + R = ((n + r*d)/d)*I
Singular(p, r) == p[1] + r * p[2] = 0

\* K = P (P+R)^-1 = (n / (n + r*d)) * I
KalmanGain(p, r) == <<p[1], p[1] + r * p[2]>>

\* float -> int64 on assignment into the integer table: toward zero
TruncDiv(a, b) ==
    LET s == IF (a < 0) = (b < 0) THEN 1 ELSE -1
        abs(x) == IF x < 0 THEN -x ELSE x
    IN s * (abs(a) \div abs(b))

StoreInt(num, den) == TruncDiv(num, den)

kalman_update(track, p, measurement, r) ==
    LET K == KalmanGain(p, r)
    IN [track |-> [k \in 1..state_dim |->
                      <<track[k] * K[2] + K[1] * (measurement[k] - track[k]), K[2]>>],
        P     |-> <<r * p[1], K[2]>>]

\* faulty variant: the cluster-local index used as the track id
UpdatedTrackIdLocal(track_idxs, association) == association

UpdatedTrackId(track_idxs, association) == track_idxs[association + 1]

KalmanStep ==
    /\ pc = "update"
    /\ ri < Len(max_associations)
    /\ LET association == max_associations[ri + 1]
       IN IF association = -1
          THEN /\ ri' = ri + 1
               /\ UNCHANGED <<tracks, P, written, pc>>
          ELSE LET id == UpdatedTrackId(clusters[ci].tracks, association)
                   rid == clusters[ci].reports[ri + 1]
               IN IF Singular(P[id + 1], R)
                  THEN /\ pc' = "aborted"   \* LinAlgError, not caught
                       /\ UNCHANGED <<tracks, P, written, ri>>
                  ELSE LET u == kalman_update(tracks[id + 1], P[id + 1],
                                              reports[rid + 1], R)
                       IN /\ tracks' = [tracks EXCEPT ![id + 1] =
                                   [k \in 1..state_dim |->
                                        StoreInt(u.track[k][1], u.track[k][2])]]
                          /\ P' = [P EXCEPT ![id + 1] = u.P]
                          /\ written' = written \cup {<<id, rid>>}
                          /\ ri' = ri + 1
                          /\ pc' = pc
    /\ UNCHANGED <<tracks0, reports, R, chi2_threshold, association_list,
                   gate_log, clusters, stack, cluster_tracks, cluster_reports,
                   ci, hypotheses, probabilities, association_weights,
                   joint_probabilities, max_associations, max_probs, csv_data>>

NextCluster ==
    /\ pc = "update"
    /\ ri = Len(max_associations)
    /\ ci' = ci + 1
    /\ pc' = "loop"
    /\ UNCHANGED <<tracks, tracks0, P, reports, R, chi2_threshold,
                   association_list, gate_log, clusters, stack, cluster_tracks,
                   cluster_reports, hypotheses, probabilities,
                   association_weights, joint_probabilities, max_associations,
                   max_probs, ri, csv_data, written>>

WriteCsv ==
    /\ pc = "loop"
    /\ ci > Len(clusters)
    /\ pc' = "done"
    /\ UNCHANGED <<tracks, tracks0, P, reports, R, chi2_threshold,
                   association_list, gate_log, clusters, stack, cluster_tracks,
                   cluster_reports, ci, hypotheses, probabilities,
                   association_weights, joint_probabilities, max_associations,
                   max_probs, ri, csv_data, written>>

\* -------------------------------------------------------------------- init
InitCommon(trk, rep) ==
    /\ tracks = trk
    /\ tracks0 = trk
    /\ P = [k \in 1..Len(trk) |-> <<1, 1>>]
    /\ reports = rep
    /\ association_list = <<>>
    /\ gate_log = <<>>
    /\ clusters = <<>>
    /\ stack = <<>>
    /\ cluster_tracks = {}
    /\ cluster_reports = {}
    /\ ci = 0
    /\ hypotheses = <<>>
    /\ probabilities = <<>>
    /\ association_weights = <<>>
    /\ joint_probabilities = <<>>
    /\ max_associations = <<>>
    /\ max_probs = <<>>
    /\ ri = 0
    /\ csv_data = <<>>
    /\ written = {}
    /\ pc = "gate"

Chi2Threshold95 == [inf |-> FALSE, sqE4 |-> Chi2Ppf95SqE4]

\* chi2.ppf(1.0, df) = inf: every finite distance is below it
Chi2ThresholdInf == [inf |-> TRUE, sqE4 |-> 0]

\* the program's constants, any small track and report table
Init ==
    /\ \E trk \in {ScenarioTracks} \cup SeqsUpTo(TrackPoints, MaxTracks) :
       \E rep \in {ScenarioReports} \cup SeqsUpTo(ReportPoints, MaxReports) :
          InitCommon(trk, rep)
    /\ R = 1
    /\ chi2_threshold = Chi2Threshold95

\* the measurement noise R as an input: identity or zero (exact measurements)
InitNoise ==
    /\ \E trk \in {ScenarioTracks} \cup SeqsUpTo(TrackPoints, MaxTracks) :
       \E rep \in {ScenarioReports} \cup SeqsUpTo(ReportPoints, MaxReports) :
          InitCommon(trk, rep)
    /\ R \in {0, 1}
    /\ chi2_threshold = Chi2Threshold95

\* the gating confidence as an input: 0.95 or 1.0, on the small tables
InitConfidence ==
    /\ \E trk \in SeqsUpTo(TrackPoints, MaxTracks) :
       \E rep \in SeqsUpTo(ReportPoints, MaxReports) :
          InitCommon(trk, rep)
    /\ R = 1
    /\ chi2_threshold \in {Chi2Threshold95, Chi2ThresholdInf}

Next ==
    \/ Gating
    \/ ClusterStart
    \/ ClusterAbsorb
    \/ ClusterAppend
    \/ ClusteringDone
    \/ GenerateHypotheses
    \/ CalculateProbabilities
    \/ GetAssociationWeights
    \/ CalculateJointProbabilities
    \/ FindMaxAssociations
    \/ EmitRecords
    \/ KalmanStep
    \/ NextCluster
    \/ WriteCsv

Spec == Init /\ [][Next]_vars

SpecNoise == InitNoise /\ [][Next]_vars

SpecConfidence == InitConfidence /\ [][Next]_vars

\* ===================================================================== claims
IsScenario == tracks0 = ScenarioTracks /\ reports = ScenarioReports

Candidates == {<<gate_log[k][1], gate_log[k][2]>> : k \in 1..Len(gate_log)}

Clustered == pc \notin {"gate", "cluster", "absorb"}

TracksOf(k) == Range(clusters[k].tracks)

ReportsOf(k) == Range(clusters[k].reports)

(* C1: once clustering has finished, the clusters partition the ids that    *)
(* take part in a candidate: the track and the report of every candidate    *)
(* lie together in one cluster, no track id and no report id lies in two    *)
(* clusters (so candidates sharing an id end in the same cluster), and a    *)
(* cluster holds only participating ids, each once.                         *)
C1_ClustersPartition ==
    Clustered =>
        /\ \A c \in Candidates : \E k \in 1..Len(clusters) :
                c[1] \in TracksOf(k) /\ c[2] \in ReportsOf(k)
        /\ \A k, l \in 1..Len(clusters) :
                k # l => /\ TracksOf(k) \cap TracksOf(l) = {}
                         /\ ReportsOf(k) \cap ReportsOf(l) = {}
        /\ \A k \in 1..Len(clusters) :
                /\ TracksOf(k) \subseteq {c[1] : c \in Candidates}
                /\ ReportsOf(k) \subseteq {c[2] : c \in Candidates}
                /\ Cardinality(TracksOf(k)) = Len(clusters[k].tracks)
                /\ Cardinality(ReportsOf(k)) = Len(clusters[k].reports)

C1_Witness ==
    /\ Clustered
    /\ Len(clusters) >= 2
    /\ \E k \in 1..Len(clusters) : Cardinality(TracksOf(k)) >= 2

(* C2: for a cluster of m tracks and n reports the enumeration walks        *)
(* (n+1)^m raw assignments, one for every map from the tracks to            *)
(* {no report, 0..n-1}; the hypotheses returned are, without duplicates,    *)
(* exactly the maps whose reports are pairwise distinct and not all "no     *)
(* report"; the list is never empty; for 2 tracks and 1 report it is the    *)
(* two single-track hypotheses.                                             *)
C2_HypothesisSpace ==
    pc = "score" =>
        LET m == Len(cluster_tracks)
            n == Len(cluster_reports)
            raw == RawHypotheses(m, n)
            all == [0..(m - 1) -> -1..(n - 1)]
            WellFormed(h) == Len(h) = m /\ \A t \in 1..m : h[t][1] = t - 1
            AsMap(h) == [t \in 0..(m - 1) |-> h[t + 1][2]]
            Valid(a) == /\ \A u, v \in 0..(m - 1) : u # v /\ a[u] # -1 => a[u] # a[v]
                        /\ \E u \in 0..(m - 1) : a[u] # -1
        IN /\ Len(raw) = Pow(n + 1, m)
           /\ \A k \in 1..Len(raw) : WellFormed(raw[k])
           /\ {AsMap(raw[k]) : k \in 1..Len(raw)} = all
           /\ \A k \in 1..Len(hypotheses) : WellFormed(hypotheses[k])
           /\ {AsMap(hypotheses[k]) : k \in 1..Len(hypotheses)} = {a \in all : Valid(a)}
           /\ Cardinality(Range(hypotheses)) = Len(hypotheses)
           /\ Len(hypotheses) > 0
           /\ (m = 2 /\ n = 1) =>
                Range(hypotheses) = {<<(<<0, 0>>), (<<1, -1>>)>>, <<(<<0, -1>>), (<<1, 0>>)>>}

C2_Witness ==
    /\ pc = "score"
    /\ Len(cluster_tracks) = 2
    /\ Len(cluster_reports) = 1
    /\ Len(hypotheses) = 2

\* hypothesis generation, scoring or weighting is still to come for a cluster
StillComputing ==
    \/ pc = "loop" /\ ci <= Len(clusters)
    \/ pc \in {"score", "weights"}

WrittenTracks == {w[1] : w \in written}

(* C3 as stated: while generation, scoring or weighting of any cluster is   *)
(* still to come, no row of the track table has been assigned.              *)
C3_NoWriteBeforeAllClustersScored == StillComputing => written = {}

(* C3 as amended: while generation, scoring or weighting of a cluster is    *)
(* still to come, no track of that cluster or of a later cluster has been   *)
(* assigned; tracks of the clusters already processed may have been.        *)
C3_NoWriteBeforeOwnClusterScored ==
    StillComputing =>
        \A k \in ci..Len(clusters) : TracksOf(k) \cap WrittenTracks = {}

C3_Witness == StillComputing /\ written # {} /\ pc = "weights"

\* the reports past the failing one whose selected track is another track
OutstandingReports ==
    {r \in (ri + 1)..(Len(max_associations) - 1) :
        max_associations[r + 1] \notin {-1, max_associations[ri + 1]}}

(* C4: a singular P+R stops the update of that one track only: the cycle    *)
(* never ends on it while another track of the cluster is still selected    *)
(* for a later report or while later clusters are still to be processed.    *)
C4_SingularUpdateScoped ==
    pc = "aborted" => OutstandingReports = {} /\ ci = Len(clusters)

(* C5: no hypothesis record carries an undefined (NaN) probability or       *)
(* joint probability, whatever the sum of the raw scores of its cluster.    *)
C5_NoNaNRecord ==
    \A k \in 1..Len(csv_data) : ~csv_data[k].prob.nan /\ ~csv_data[k].joint.nan

(* C6: in the concrete scenario gating admits no candidate with report 3    *)
(* and clustering yields exactly the clusters (tracks {0,2}, reports        *)
(* {0,2}) and (tracks {1}, reports {1}).                                    *)
C6_ScenarioClusters ==
    (IsScenario /\ Clustered) =>
        /\ \A c \in Candidates : c[2] # 3
        /\ Len(clusters) = 2
        /\ {<<TracksOf(k), ReportsOf(k)>> : k \in 1..Len(clusters)} =
                {<<{0, 2}, {0, 2}>>, <<{1}, {1}>>}

C6_Witness == IsScenario /\ pc = "loop" /\ ci = 1

(* C7 as stated: in the concrete scenario the admitted pairs are T0-R0,     *)
(* T0-R2, T1-R1, T2-R0, T2-R2 and each has squared distance 2.              *)
C7_AllDistancesSqrt2 ==
    (IsScenario /\ pc # "gate") =>
        /\ Candidates = {<<0, 0>>, <<0, 2>>, <<1, 1>>, <<2, 0>>, <<2, 2>>}
        /\ \A k \in 1..Len(gate_log) : gate_log[k][3] = 2

(* C7 as amended: the five admitted pairs have squared distances            *)
(* T0-R0 = 2, T0-R2 = 8, T1-R1 = 2, T2-R0 = 0, T2-R2 = 2.                   *)
C7_ScenarioDistances ==
    (IsScenario /\ pc # "gate") =>
        gate_log = <<(<<0, 0, 2>>), (<<0, 2, 8>>), (<<1, 1, 2>>),
                     (<<2, 0, 0>>), (<<2, 2, 2>>)>>

C7_Witness == IsScenario /\ pc = "cluster" /\ Len(gate_log) = 5

(* C8: in the concrete scenario, when the cycle is over, the stored state   *)
(* of every updated track is strictly closer to each report it was updated  *)
(* with than its state before the cycle.                                    *)
C8_MovedTowardReport ==
    (IsScenario /\ pc = "done") =>
        /\ written # {}
        /\ \A w \in written :
              mahalanobis_distance_sq(tracks[w[1] + 1], reports[w[2] + 1])
                < mahalanobis_distance_sq(tracks0[w[1] + 1], reports[w[2] + 1])

RECURSIVE NumSum(_)
NumSum(K) ==
    IF K = {} THEN EmptyBag
    ELSE LET k == CHOOSE x \in K : TRUE
         IN probabilities[k].num (+) NumSum(K \ {k})

RECURSIVE WeightSum(_)
WeightSum(w) == IF w = <<>> THEN EmptyBag ELSE Head(w)[2].num (+) WeightSum(Tail(w))

WeightsReady == pc \in {"joint", "max", "emit", "update"}

(* C9: for every track of the cluster, each weight is the sum of the        *)
(* normalized probabilities of exactly the hypotheses that hold that        *)
(* (track, report) pair, each report has one entry, and the weights of the  *)
(* track add up to the probability of the hypotheses that give the track a  *)
(* report, which is part of the cluster total, hence at most 1.             *)
C9_MarginalWeights ==
    WeightsReady =>
        /\ Len(association_weights) = Len(cluster_tracks)
        /\ \A t \in 1..Len(association_weights) :
            LET w == association_weights[t]
                All == 1..Len(hypotheses)
                WithPair(r) == {k \in All : hypotheses[k][t][2] = r}
                Assigned == {k \in All : hypotheses[k][t][2] # -1}
            IN /\ \A e \in 1..Len(w) :
                    /\ ~w[e][2].nan
                    /\ w[e][2].num = NumSum(WithPair(w[e][1]))
               /\ \A e1, e2 \in 1..Len(w) : e1 # e2 => w[e1][1] # w[e2][1]
               /\ {w[e][1] : e \in 1..Len(w)} = {hypotheses[k][t][2] : k \in Assigned}
               /\ WeightSum(w) = NumSum(Assigned)
               /\ WeightSum(w) \sqsubseteq NumSum(All)
               /\ NumSum(All) # EmptyBag

C9_Witness ==
    /\ WeightsReady
    /\ \E t \in 1..Len(association_weights) :
       \E e \in 1..Len(association_weights[t]) :
            BagCardinality(association_weights[t][e][2].num) >= 2

RECURSIVE Chain(_)
Chain(S) ==
    LET more == {c \in Candidates : \E s \in S : c[1] = s[1] \/ c[2] = s[2]}
    IN IF more \subseteq S THEN S ELSE Chain(S \cup more)

Generated == pc \in {"score", "weights", "joint", "max", "emit", "update"}

\* the (track id, report id) pairs of the hypotheses of the current cluster
HypothesisPairs ==
    UNION {{<<clusters[ci].tracks[hypotheses[k][t][1] + 1],
              clusters[ci].reports[hypotheses[k][t][2] + 1]>> :
                t \in {u \in 1..Len(hypotheses[k]) : hypotheses[k][u][2] # -1}} :
           k \in 1..Len(hypotheses)}

(* C10 as stated: every (track, report) pair of an enumerated hypothesis is *)
(* a candidate admitted by gating.                                          *)
C10_OnlyCandidatePairs == Generated => HypothesisPairs \subseteq Candidates

(* C10 as amended: every (track, report) pair of an enumerated hypothesis   *)
(* joins a track and a report of the cluster, that is a track of one        *)
(* candidate and a report of another candidate linked to it by a chain of   *)
(* candidates sharing a track or a report; the pair need not be a           *)
(* candidate itself.                                                        *)
C10_PairsWithinCluster ==
    Generated =>
        /\ \A k \in 1..Len(hypotheses) : \A t \in 1..Len(hypotheses[k]) :
                /\ hypotheses[k][t][1] \in 0..(Len(clusters[ci].tracks) - 1)
                /\ hypotheses[k][t][2] \in -1..(Len(clusters[ci].reports) - 1)
        /\ \A p \in HypothesisPairs :
                \E c \in Candidates :
                    /\ c[1] = p[1]
                    /\ \E d \in Chain({c}) : d[2] = p[2]

C10_Witness == Generated /\ ~(HypothesisPairs \subseteq Candidates)

====
